---- MODULE Spec2Model ----
(***************************************************************************)
(* Model of ical.tzif.timezoneinfo: the two memoized timezone catalogs,    *)
(* the host TZPATH search, the key -> (package, resource) mapping and      *)
(* read(key).                                                              *)
(*                                                                         *)
(* Strings are sequences of one-character strings, so that rsplit and      *)
(* replace are computed character by character.  Python's None is the      *)
(* empty sequence <<>> where a value is optional, and an optional value v  *)
(* is <<v>>.  The outcome of a call is a record: [kind |-> "return", ...]  *)
(* or [kind |-> "raise", exc |-> <exception class>, msg |-> <message>].    *)
(***************************************************************************)
EXTENDS Integers, Sequences, FiniteSets, TLC

VARIABLES
    sysdb,       \* what zoneinfo.available_timezones() would return now
    hostfs,      \* hostfs[i][key]: the file at TZPATH[i]/key
    pkgs,        \* the importable packages of the tzdata distribution
    zones,       \* the file tzdata/zones
    res,         \* res[<<package, resource>>]: a bundled resource file
    sysCache,    \* functools.cache of _read_system_timezones
    tzCache,     \* functools.cache of _read_tzdata_timezones
    sysWrites,   \* history: every value stored in sysCache, in order
    tzWrites,    \* history: every value stored in tzCache, in order
    frame,       \* frame[t]: the call thread t is in, or last finished
    calls,       \* number of calls started (interleaved specification)
    envChanges,  \* number of changes of the installed databases so far
    mkey,        \* input of the key -> resource mapping (MapSpec)
    mres         \* its result, <<>> before it is applied (MapSpec)

vars == <<sysdb, hostfs, pkgs, zones, res, sysCache, tzCache, sysWrites,
          tzWrites, frame, calls, envChanges, mkey, mres>>

env == <<sysdb, hostfs, pkgs, zones, res>>

----------------------------------------------------------------------------
(* Bounds of the model *)

\* number of entries of zoneinfo.TZPATH
NumDirs == 2

\* longest key the mapping is applied to in MapSpec
MaxKeyLen == 5

\* calls started in the interleaved specification
MaxCalls == 3

\* changes of the installed databases in the interleaved specification
MaxEnvChanges == 1

Threads == {"t1", "t2"}

MainThread == "t1"

\* "UTC": a key without separator
Key1 == <<"u">>

\* "America/Indiana/Indianapolis": a key with two separators
Key2 == <<"a", "/", "i", "/", "n">>

Keys == {Key1, Key2}

Alphabet == {"a", "b", "/"}

RECURSIVE StringsOfLen(_)
StringsOfLen(n) ==
    IF n = 0 THEN {<<>>}
    ELSE {Append(s, c) : s \in StringsOfLen(n - 1), c \in Alphabet}

AllKeys == UNION {StringsOfLen(n) : n \in 1..MaxKeyLen}

----------------------------------------------------------------------------
(* Values *)

Return(v) == [kind |-> "return", value |-> v]

Raise(e, m) == [kind |-> "raise", exc |-> e, msg |-> m]

NoResult == [kind |-> "none"]

TimezoneInfoError == "TimezoneInfoError"

MsgNotInSystem == "Unable to find timezone in system timezones"

MsgNotFound == "Unable to find timezone"

MsgNoModule == "Unable to load tzdata module"

MsgNoFile == "Unable to read tzdata file"

NoFile == [kind |-> "none"]

File(b, r) == [kind |-> "file", bytes |-> b, readable |-> r]

\* a well-formed TZif file found in TZPATH[i]
GoodHostBytes(i) == <<"TZif", "2", <<"host", i>>>>

\* a file in TZPATH that is not TZif data
CorruptHostBytes == <<"junk", "2", <<"host", 0>>>>

\* a well-formed version-1 TZif resource of the tzdata package
GoodBundledBytes == <<"TZif", "0", <<"tzdata", 0>>>>

\* a resource of the tzdata package of an unknown format version
CorruptBundledBytes == <<"TZif", "9", <<"tzdata", 0>>>>

----------------------------------------------------------------------------
(* tzif.read_tzif: header check of the decoder (magic, version), the rest  *)
(* of the file kept as the payload of the TimezoneInfo.                    *)

VersionOf(b) == CASE b = "0" -> 1 [] b = "2" -> 2 [] b = "3" -> 3 [] OTHER -> 0

read_tzif(bytes) ==
    IF bytes[1] # "TZif" THEN Raise("InvalidMagic", "")
    ELSE IF VersionOf(bytes[2]) = 0 THEN Raise("UnsupportedVersion", "")
    ELSE Return([type |-> "TimezoneInfo", version |-> VersionOf(bytes[2]),
                 payload |-> bytes[3]])

----------------------------------------------------------------------------
(* zoneinfo.TZPATH and _find_tzfile *)

TZPATH == [i \in 1..NumDirs |-> i]

isfile(i, key) == hostfs[TZPATH[i]][key].kind = "file"

\* the loop of _find_tzfile from TZPATH[i] on: the entries it probes, the
\* last one being the one it returns from, if it returns from one
RECURSIVE SearchTrace(_, _)
SearchTrace(i, key) ==
    IF i > Len(TZPATH) THEN <<>>
    ELSE IF isfile(i, key) THEN <<i>>
    ELSE <<i>> \o SearchTrace(i + 1, key)

\* mutant of _find_tzfile: the last entry of TZPATH that has the file wins
_find_tzfile_last(key) ==
    IF \E i \in 1..Len(TZPATH) : isfile(i, key)
    THEN CHOOSE i \in 1..Len(TZPATH) :
             /\ isfile(i, key)
             /\ \A j \in (i + 1)..Len(TZPATH) : ~isfile(j, key)
    ELSE 0

\* 0 is None; otherwise the index in TZPATH of the directory of the file
_find_tzfile(key) ==
    LET p == SearchTrace(1, key)
    IN  IF Len(p) > 0 /\ isfile(p[Len(p)], key) THEN p[Len(p)] ELSE 0

\* open(tzfile, "rb") and read()
OpenHost(i, key) ==
    IF hostfs[TZPATH[i]][key].readable
    THEN Return(hostfs[TZPATH[i]][key].bytes)
    ELSE Raise("PermissionError", "")

----------------------------------------------------------------------------
(* _iana_key_to_resource *)

TzdataPackage == <<"tzdata">>

ZoneinfoPackage == <<"tzdata", ".", "zoneinfo">>

HasSlash(key) == \E i \in 1..Len(key) : key[i] = "/"

\* mutant of rsplit: key.split("/", 1), which cuts at the first "/"
rsplit_first(key) ==
    LET i == CHOOSE j \in 1..Len(key) :
                 /\ key[j] = "/"
                 /\ \A k \in 1..(j - 1) : key[k] # "/"
    IN <<SubSeq(key, 1, i - 1), SubSeq(key, i + 1, Len(key))>>

\* key.rsplit("/", 1) of a key that holds a "/"
rsplit(key) ==
    LET i == CHOOSE j \in 1..Len(key) :
                 /\ key[j] = "/"
                 /\ \A k \in (j + 1)..Len(key) : key[k] # "/"
    IN <<SubSeq(key, 1, i - 1), SubSeq(key, i + 1, Len(key))>>

\* s.replace("/", ".")
replace(s) == [i \in 1..Len(s) |-> IF s[i] = "/" THEN "." ELSE s[i]]

\* mutant of _iana_key_to_resource: every resource sought in the root package
_iana_key_to_resource_flat(key) == <<ZoneinfoPackage, key>>

_iana_key_to_resource(key) ==
    IF ~HasSlash(key) THEN <<ZoneinfoPackage, key>>
    ELSE <<ZoneinfoPackage \o <<".">> \o replace(rsplit(key)[1]),
           rsplit(key)[2]>>

----------------------------------------------------------------------------
(* The bodies of the two memoized functions *)

Whitespace == {" ", "\n"}

\* line.strip()
RECURSIVE strip(_)
strip(s) ==
    IF Len(s) = 0 THEN s
    ELSE IF Head(s) \in Whitespace THEN strip(Tail(s))
    ELSE IF s[Len(s)] \in Whitespace THEN strip(SubSeq(s, 1, Len(s) - 1))
    ELSE s

\* the body of _read_system_timezones (the call the cache wraps)
_read_system_timezones == Return(sysdb)

\* the body of _read_tzdata_timezones (the call the cache wraps)
_read_tzdata_timezones ==
    IF TzdataPackage \notin pkgs THEN Return({})
    ELSE IF zones.kind # "file" THEN Raise("FileNotFoundError", "")
    ELSE Return({strip(zones.bytes[i]) : i \in 1..Len(zones.bytes)})

\* functools.cache around a function without arguments: the cached value
\* on a hit, the body's outcome on a miss
CachedCall(cache, body) == IF Len(cache) > 0 THEN Return(cache[1]) ELSE body

----------------------------------------------------------------------------
(* Calls.  A frame holds a call's arguments, the values of its locals and  *)
(* what it did: the catalogs it was given, the directories it probed, the  *)
(* resource it asked for, how often it ran the decoder, and its outcome.   *)

NewFrame(op, key) ==
    [pc |-> "sys_call", op |-> op, key |-> key, result |-> NoResult,
     hostCat |-> <<>>, tzCalled |-> FALSE, tzCat |-> <<>>, tzfile |-> 0,
     probed |-> <<>>, fetched |-> <<>>, decodes |-> 0, tmp |-> <<>>]

IdleFrame == [NewFrame("none", <<>>) EXCEPT !.pc = "idle"]

Finish(f, r) == [f EXCEPT !.pc = "done", !.result = r, !.tmp = <<>>]

ResourceAt(a) == IF a \in DOMAIN res THEN res[a] ELSE NoFile

\* mutant of KnownToSystem: the check of line 62 left out
KnownToSystem_unchecked(key, cat) == TRUE

\* line 62: key not in _read_system_timezones()
KnownToSystem(key, cat) == key \in cat

\* mutant of KnownToTzdata: the check of line 72 left out
KnownToTzdata_unchecked(key, tzc) == TRUE

\* line 72: key not in _read_tzdata_timezones()
KnownToTzdata(key, tzc) == key \in tzc

\* mutant of DecodeHost: a host file that does not decode makes read go on
\* to the tzdata package
DecodeHost_fallback(h, bytes) ==
    IF read_tzif(bytes).kind = "raise"
    THEN [h EXCEPT !.decodes = @ + 1, !.pc = "tz_call", !.tzCalled = TRUE]
    ELSE Finish([h EXCEPT !.decodes = @ + 1], read_tzif(bytes))

\* line 69: the bytes of the host file go to the decoder, whose outcome is
\* the call's
DecodeHost(h, bytes) ==
    Finish([h EXCEPT !.decodes = @ + 1], read_tzif(bytes))

\* mutant of OpenResource: a package that cannot be imported is reported as
\* a file that cannot be found
OpenResource_nopackage(a) ==
    IF a[1] \notin pkgs \/ ResourceAt(a).kind # "file"
    THEN Raise("FileNotFoundError", "")
    ELSE Return(ResourceAt(a).bytes)

\* line 77: resources.files(package).joinpath(resource).open("rb"), read()
OpenResource(a) ==
    IF a[1] \notin pkgs THEN Raise("ModuleNotFoundError", "")
    ELSE IF ResourceAt(a).kind # "file" THEN Raise("FileNotFoundError", "")
    ELSE Return(ResourceAt(a).bytes)

\* lines 79-83: the except clauses around the fetch and the decoding
ExceptClauses(r) ==
    IF r.kind = "raise" /\ r.exc = "ModuleNotFoundError"
    THEN Raise(TimezoneInfoError, MsgNoModule)
    ELSE IF r.kind = "raise" /\ r.exc = "FileNotFoundError"
    THEN Raise(TimezoneInfoError, MsgNoFile)
    ELSE r

\* read, lines 62-69: from the host catalog to the host file
ReadHost(f, cat) ==
    LET g == [f EXCEPT !.hostCat = <<cat>>]
    IN  IF ~KnownToSystem(f.key, cat)
        THEN Finish(g, Raise(TimezoneInfoError, MsgNotInSystem))
        ELSE LET d == _find_tzfile(f.key)
                 h == [g EXCEPT !.tzfile = d, !.probed = SearchTrace(1, f.key)]
             IN  IF d # 0
                 THEN LET o == OpenHost(d, f.key)
                      IN  IF o.kind = "raise" THEN Finish(h, o)
                          ELSE DecodeHost(h, o.value)
                 ELSE [h EXCEPT !.pc = "tz_call", !.tzCalled = TRUE]

\* read, lines 72-83: from the bundled catalog to the bundled resource
ReadBundled(f, tzc) ==
    LET g == [f EXCEPT !.tzCat = <<tzc>>]
    IN  IF ~KnownToTzdata(f.key, tzc)
        THEN Finish(g, Raise(TimezoneInfoError, MsgNotFound))
        ELSE LET a == _iana_key_to_resource(f.key)
                 h == [g EXCEPT !.fetched = <<a>>]
                 o == OpenResource(a)
             IN  IF o.kind = "raise" THEN Finish(h, ExceptClauses(o))
                 ELSE Finish([h EXCEPT !.decodes = @ + 1],
                             ExceptClauses(read_tzif(o.value)))

\* a call of _read_system_timezones() made for its own sake
AfterSys(f, cat) ==
    IF f.op = "read" THEN ReadHost(f, cat)
    ELSE Finish([f EXCEPT !.hostCat = <<cat>>], Return(cat))

\* the outcome of the call of _read_tzdata_timezones() reaches its caller
AfterTz(f, r) ==
    IF r.kind = "raise" THEN Finish(f, r)
    ELSE IF f.op = "read" THEN ReadBundled(f, r.value)
    ELSE Finish([f EXCEPT !.tzCat = <<r.value>>], r)

----------------------------------------------------------------------------
(* Spec: calls made one after the other, each one atomic. *)

\* what a call leaves in the two caches
Memoize(sysr, tzr) ==
    /\ IF Len(sysCache) = 0 /\ Len(sysr) > 0
       THEN /\ sysCache' = sysr
            /\ sysWrites' = Append(sysWrites, sysr[1])
       ELSE UNCHANGED <<sysCache, sysWrites>>
    /\ IF Len(tzCache) = 0 /\ Len(tzr) > 0
       THEN /\ tzCache' = tzr
            /\ tzWrites' = Append(tzWrites, tzr[1])
       ELSE UNCHANGED <<tzCache, tzWrites>>

\* read(key)
Read(t, key) ==
    LET cat == CachedCall(sysCache, _read_system_timezones).value
        f == ReadHost(NewFrame("read", key), cat)
        r == CachedCall(tzCache, _read_tzdata_timezones)
    IN  /\ frame' = [frame EXCEPT ![t] = IF f.pc = "done" THEN f ELSE AfterTz(f, r)]
        /\ Memoize(<<cat>>, IF f.pc # "done" /\ r.kind = "return"
                            THEN <<r.value>> ELSE <<>>)
        /\ UNCHANGED <<env, calls, envChanges, mkey, mres>>

\* _read_system_timezones()
SystemTimezones(t) ==
    LET cat == CachedCall(sysCache, _read_system_timezones).value
    IN  /\ frame' = [frame EXCEPT ![t] = AfterSys(NewFrame("system", <<>>), cat)]
        /\ Memoize(<<cat>>, <<>>)
        /\ UNCHANGED <<env, calls, envChanges, mkey, mres>>

\* _read_tzdata_timezones()
TzdataTimezones(t) ==
    LET r == CachedCall(tzCache, _read_tzdata_timezones)
        f == [NewFrame("tzdata", <<>>) EXCEPT !.pc = "tz_call", !.tzCalled = TRUE]
    IN  /\ frame' = [frame EXCEPT ![t] = AfterTz(f, r)]
        /\ Memoize(<<>>, IF r.kind = "return" THEN <<r.value>> ELSE <<>>)
        /\ UNCHANGED <<env, calls, envChanges, mkey, mres>>

HostKinds == {"none", "good", "unreadable", "corrupt"}

HostState(i, c) ==
    CASE c = "good" -> File(GoodHostBytes(i), TRUE)
      [] c = "unreadable" -> File(GoodHostBytes(i), FALSE)
      [] c = "corrupt" -> File(CorruptHostBytes, TRUE)
      [] OTHER -> NoFile

\* TZPATH directories in which at most one of the keys has files
HostFileSystems ==
    {[i \in 1..NumDirs |-> [k \in Keys |-> IF k = fk THEN HostState(i, c[i]) ELSE NoFile]] :
        fk \in Keys, c \in [1..NumDirs -> HostKinds]}

\* where the tzdata distribution keeps the data of Key1 and of Key2
Addr1 == <<<<"tzdata", ".", "zoneinfo">>, <<"u">>>>

Addr2 == <<<<"tzdata", ".", "zoneinfo", ".", "a", ".", "i">>, <<"n">>>>

ResKinds == {"none", "good", "corrupt"}

ResState(c) ==
    CASE c = "good" -> File(GoodBundledBytes, TRUE)
      [] c = "corrupt" -> File(CorruptBundledBytes, TRUE)
      [] OTHER -> NoFile

\* resource files of the tzdata distribution, of at most one of the keys
ResourceFiles ==
    {[a \in {Addr1, Addr2} |-> IF a = fa THEN ResState(c) ELSE NoFile] :
        fa \in {Addr1, Addr2}, c \in ResKinds}

\* tzdata not installed, or installed up to some depth of its subpackages
PackageSets ==
    {{},
     {TzdataPackage},
     {TzdataPackage, ZoneinfoPackage},
     {TzdataPackage, ZoneinfoPackage,
      <<"tzdata", ".", "zoneinfo", ".", "a">>,
      <<"tzdata", ".", "zoneinfo", ".", "a", ".", "i">>}}

Line(key) == key \o <<"\n">>

ZonesFiles ==
    {NoFile, File(<<>>, TRUE), File(<<Line(Key1)>>, TRUE),
     File(<<Line(Key2)>>, TRUE), File(<<Line(Key1), Line(Key2)>>, TRUE)}

InitProcess ==
    /\ sysCache = <<>>
    /\ tzCache = <<>>
    /\ sysWrites = <<>>
    /\ tzWrites = <<>>
    /\ frame = [t \in Threads |-> IdleFrame]
    /\ calls = 0
    /\ envChanges = 0

Init ==
    /\ sysdb \in SUBSET Keys
    /\ hostfs \in HostFileSystems
    /\ pkgs \in PackageSets
    /\ zones \in ZonesFiles
    /\ res \in ResourceFiles
    /\ InitProcess
    /\ mkey = Key1
    /\ mres = <<>>

Next ==
    \/ \E key \in Keys : Read(MainThread, key)
    \/ SystemTimezones(MainThread)
    \/ TzdataTimezones(MainThread)

Spec == Init /\ [][Next]_vars

----------------------------------------------------------------------------
(* MapSpec: _iana_key_to_resource applied to every key of up to MaxKeyLen  *)
(* characters.                                                             *)

InitMap ==
    /\ mkey \in AllKeys
    /\ mres = <<>>
    /\ sysdb = Keys
    /\ hostfs = [i \in 1..NumDirs |-> [k \in Keys |-> NoFile]]
    /\ pkgs = {}
    /\ zones = NoFile
    /\ res = [a \in {Addr1, Addr2} |-> NoFile]
    /\ InitProcess

MapKey ==
    /\ Len(mres) = 0
    /\ mres' = <<_iana_key_to_resource(mkey)>>
    /\ UNCHANGED <<env, sysCache, tzCache, sysWrites, tzWrites, frame, calls,
                   envChanges, mkey>>

NextMap == MapKey

MapSpec == InitMap /\ [][NextMap]_vars

----------------------------------------------------------------------------
(* ConcSpec: calls of two threads, interleaved at the steps of             *)
(* functools.cache (look the key up; on a miss run the body; store its     *)
(* value), while the installed databases change.                           *)

\* thread t calls read(key), _read_system_timezones() or
\* _read_tzdata_timezones()
Call(t, op, key) ==
    /\ frame[t].pc \in {"idle", "done"}
    /\ calls < MaxCalls
    /\ calls' = calls + 1
    /\ frame' = [frame EXCEPT ![t] =
                    IF op = "tzdata"
                    THEN [NewFrame(op, key) EXCEPT !.pc = "tz_call", !.tzCalled = TRUE]
                    ELSE NewFrame(op, key)]
    /\ UNCHANGED <<env, sysCache, tzCache, sysWrites, tzWrites, envChanges,
                   mkey, mres>>

\* the cache of _read_system_timezones is looked up
SysLookup(t) ==
    /\ frame[t].pc = "sys_call"
    /\ frame' = [frame EXCEPT ![t] =
                    IF Len(sysCache) > 0 THEN AfterSys(@, sysCache[1])
                    ELSE [@ EXCEPT !.pc = "sys_compute"]]
    /\ UNCHANGED <<env, sysCache, tzCache, sysWrites, tzWrites, calls,
                   envChanges, mkey, mres>>

\* after a miss, the body of _read_system_timezones runs
SysCompute(t) ==
    /\ frame[t].pc = "sys_compute"
    /\ frame' = [frame EXCEPT ![t] =
                    [@ EXCEPT !.pc = "sys_store",
                              !.tmp = <<_read_system_timezones.value>>]]
    /\ UNCHANGED <<env, sysCache, tzCache, sysWrites, tzWrites, calls,
                   envChanges, mkey, mres>>

\* its value is stored in the cache and returned
SysStore(t) ==
    /\ frame[t].pc = "sys_store"
    /\ sysCache' = frame[t].tmp
    /\ sysWrites' = Append(sysWrites, frame[t].tmp[1])
    /\ frame' = [frame EXCEPT ![t] = AfterSys([@ EXCEPT !.tmp = <<>>], frame[t].tmp[1])]
    /\ UNCHANGED <<env, tzCache, tzWrites, calls, envChanges, mkey, mres>>

\* the cache of _read_tzdata_timezones is looked up
TzLookup(t) ==
    /\ frame[t].pc = "tz_call"
    /\ frame' = [frame EXCEPT ![t] =
                    IF Len(tzCache) > 0 THEN AfterTz(@, Return(tzCache[1]))
                    ELSE [@ EXCEPT !.pc = "tz_compute"]]
    /\ UNCHANGED <<env, sysCache, tzCache, sysWrites, tzWrites, calls,
                   envChanges, mkey, mres>>

\* after a miss, the body of _read_tzdata_timezones runs; what it raises
\* goes to the caller and is not cached
TzCompute(t) ==
    /\ frame[t].pc = "tz_compute"
    /\ frame' = [frame EXCEPT ![t] =
                    IF _read_tzdata_timezones.kind = "raise"
                    THEN AfterTz(@, _read_tzdata_timezones)
                    ELSE [@ EXCEPT !.pc = "tz_store",
                                   !.tmp = <<_read_tzdata_timezones.value>>]]
    /\ UNCHANGED <<env, sysCache, tzCache, sysWrites, tzWrites, calls,
                   envChanges, mkey, mres>>

\* its value is stored in the cache and returned
TzStore(t) ==
    /\ frame[t].pc = "tz_store"
    /\ tzCache' = frame[t].tmp
    /\ tzWrites' = Append(tzWrites, frame[t].tmp[1])
    /\ frame' = [frame EXCEPT ![t] =
                    AfterTz([@ EXCEPT !.tmp = <<>>], Return(frame[t].tmp[1]))]
    /\ UNCHANGED <<env, sysCache, sysWrites, calls, envChanges, mkey, mres>>

\* the host's timezone database is changed (a zone installed or removed)
ChangeInstalled ==
    /\ envChanges < MaxEnvChanges
    /\ envChanges' = envChanges + 1
    /\ sysdb' \in (SUBSET Keys) \ {sysdb}
    /\ UNCHANGED <<hostfs, pkgs, zones, res, sysCache, tzCache, sysWrites,
                   tzWrites, frame, calls, mkey, mres>>

\* the tzdata distribution is changed (upgraded, its zones file rewritten)
ChangeTzdata ==
    /\ envChanges < MaxEnvChanges
    /\ envChanges' = envChanges + 1
    /\ zones' \in ZonesFiles \ {zones}
    /\ UNCHANGED <<sysdb, hostfs, pkgs, res, sysCache, tzCache, sysWrites,
                   tzWrites, frame, calls, mkey, mres>>

\* an installation with both keys known, Key1's data in TZPATH[1] and
\* Key2's in the tzdata distribution only
InitConc ==
    /\ sysdb = Keys
    /\ hostfs = [i \in 1..NumDirs |-> [k \in Keys |->
                    IF i = 1 /\ k = Key1 THEN File(GoodHostBytes(1), TRUE) ELSE NoFile]]
    /\ pkgs = {TzdataPackage, ZoneinfoPackage,
               <<"tzdata", ".", "zoneinfo", ".", "a">>,
               <<"tzdata", ".", "zoneinfo", ".", "a", ".", "i">>}
    /\ zones = File(<<Line(Key1), Line(Key2)>>, TRUE)
    /\ res = [a \in {Addr1, Addr2} |->
                 IF a = Addr2 THEN File(GoodBundledBytes, TRUE) ELSE NoFile]
    /\ InitProcess
    /\ mkey = Key1
    /\ mres = <<>>

NextConc ==
    \/ \E t \in Threads : \E key \in Keys : Call(t, "read", key)
    \/ \E t \in Threads : Call(t, "system", <<>>)
    \/ \E t \in Threads : Call(t, "tzdata", <<>>)
    \/ \E t \in Threads : SysLookup(t)
    \/ \E t \in Threads : SysCompute(t)
    \/ \E t \in Threads : SysStore(t)
    \/ \E t \in Threads : TzLookup(t)
    \/ \E t \in Threads : TzCompute(t)
    \/ \E t \in Threads : TzStore(t)
    \/ ChangeInstalled
    \/ ChangeTzdata

ConcSpec == InitConc /\ [][NextConc]_vars

----------------------------------------------------------------------------
(* The vocabulary of the claims *)

Done(t) == frame[t].pc = "done"

ReadDone(t) == Done(t) /\ frame[t].op = "read"

\* the host catalog exists and holds key
InHostCatalog(key) == Len(sysCache) > 0 /\ key \in sysCache[1]

\* the bundled catalog exists and holds key
InBundledCatalog(key) == Len(tzCache) > 0 /\ key \in tzCache[1]

HasHostFile(key) == \E i \in 1..NumDirs : hostfs[i][key].kind = "file"

FirstHostDir(key) ==
    CHOOSE i \in 1..NumDirs :
        /\ hostfs[i][key].kind = "file"
        /\ \A j \in 1..(i - 1) : hostfs[j][key].kind # "file"

\* the address of key's data in the tzdata distribution
BundledAddress(key) == IF key = Key1 THEN Addr1 ELSE Addr2

UnknownTimezone(r) ==
    /\ r.kind = "raise"
    /\ r.exc = TimezoneInfoError
    /\ r.msg \in {MsgNotInSystem, MsgNotFound}

BundleUnavailable(r) ==
    r.kind = "raise" /\ r.exc = TimezoneInfoError /\ r.msg = MsgNoModule

ResourceMissing(r) ==
    r.kind = "raise" /\ r.exc = TimezoneInfoError /\ r.msg = MsgNoFile

DecodeErrors ==
    {"InvalidMagic", "UnsupportedVersion", "TruncatedOrCorrupt",
     "InvalidTypeIndex", "InvalidDesignationIndex", "UnexpectedEndOfData"}

DecodeError(r) == r.kind = "raise" /\ r.exc \in DecodeErrors

IsTimezoneInfo(r) == r.kind = "return" /\ r.value.type = "TimezoneInfo"

\* the call touched nothing of the tzdata distribution
NoBundledAccess(f) == ~f.tzCalled /\ Len(f.tzCat) = 0 /\ Len(f.fetched) = 0

----------------------------------------------------------------------------
\* C1: a read of a key that is not in the host catalog fails with
\* UnknownTimezone without having probed a search directory, consulted the
\* bundled catalog, fetched a resource or run the decoder, whatever the
\* search directories and the bundled catalog hold.
C1_RejectsUnknownKey ==
    \A t \in Threads :
        ReadDone(t) /\ ~InHostCatalog(frame[t].key) =>
            /\ UnknownTimezone(frame[t].result)
            /\ Len(frame[t].probed) = 0
            /\ frame[t].tzfile = 0
            /\ NoBundledAccess(frame[t])
            /\ frame[t].decodes = 0

\* C1's case: the rejected key has a host file and is in the bundled catalog
C1_Witness ==
    \E t \in Threads :
        /\ ReadDone(t)
        /\ ~InHostCatalog(frame[t].key)
        /\ HasHostFile(frame[t].key)
        /\ InBundledCatalog(frame[t].key)
        /\ UnknownTimezone(frame[t].result)

\* C2: for a key of the host catalog with a file in some search directory,
\* the directories are probed in order up to the first that has the file,
\* the outcome of read is that of opening and decoding that file, and
\* nothing of the bundled distribution is consulted.
C2_FirstHostFileWins ==
    \A t \in Threads :
        ReadDone(t) /\ InHostCatalog(frame[t].key) /\ HasHostFile(frame[t].key) =>
            LET d == FirstHostDir(frame[t].key)
                file == hostfs[d][frame[t].key]
            IN  /\ frame[t].tzfile = d
                /\ frame[t].probed = [j \in 1..d |-> j]
                /\ NoBundledAccess(frame[t])
                /\ file.readable =>
                       /\ frame[t].result = read_tzif(file.bytes)
                       /\ frame[t].decodes = 1
                /\ ~file.readable =>
                       /\ frame[t].result.kind = "raise"
                       /\ frame[t].decodes = 0

\* C2's case: two directories hold different files for the key, the
\* distribution holds data for it too, and read returned the first file's
C2_Witness ==
    \E t \in Threads :
        /\ ReadDone(t)
        /\ NumDirs >= 2
        /\ hostfs[1][frame[t].key] = File(GoodHostBytes(1), TRUE)
        /\ hostfs[2][frame[t].key] = File(GoodHostBytes(2), TRUE)
        /\ ResourceAt(BundledAddress(frame[t].key)).kind = "file"
        /\ IsTimezoneInfo(frame[t].result)
        /\ frame[t].result.value.payload = <<"host", 1>>

\* C3: for a key of the host catalog without a file in any search
\* directory and not in the bundled catalog, read fails with
\* UnknownTimezone, having neither fetched a resource nor run the decoder.
C3_NotBundledIsUnknown ==
    \A t \in Threads :
        /\ ReadDone(t)
        /\ InHostCatalog(frame[t].key)
        /\ ~HasHostFile(frame[t].key)
        /\ Len(tzCache) > 0
        /\ ~InBundledCatalog(frame[t].key)
        => /\ UnknownTimezone(frame[t].result)
           /\ ~ResourceMissing(frame[t].result)
           /\ Len(frame[t].fetched) = 0
           /\ frame[t].decodes = 0

\* C3's case: the distribution does hold a resource for the key
C3_Witness ==
    \E t \in Threads :
        /\ ReadDone(t)
        /\ InHostCatalog(frame[t].key)
        /\ ~HasHostFile(frame[t].key)
        /\ Len(tzCache) > 0
        /\ ~InBundledCatalog(frame[t].key)
        /\ BundledAddress(frame[t].key)[1] \in pkgs
        /\ ResourceAt(BundledAddress(frame[t].key)).kind = "file"
        /\ UnknownTimezone(frame[t].result)

C6_BundledFetchFailures ==
    \A t \in Threads :
        /\ ReadDone(t)
        /\ InHostCatalog(frame[t].key)
        /\ ~HasHostFile(frame[t].key)
        /\ InBundledCatalog(frame[t].key)
        => LET a == BundledAddress(frame[t].key)
               r == frame[t].result
           IN  /\ a[1] \notin pkgs =>
                      BundleUnavailable(r) /\ ~UnknownTimezone(r) /\ frame[t].decodes = 0
               /\ a[1] \in pkgs /\ ResourceAt(a).kind # "file" =>
                      ResourceMissing(r) /\ ~UnknownTimezone(r) /\ frame[t].decodes = 0

\* C6's case: the bundled catalog lists a key whose package is not there
C6_Witness ==
    \E t \in Threads :
        /\ ReadDone(t)
        /\ InHostCatalog(frame[t].key)
        /\ InBundledCatalog(frame[t].key)
        /\ BundledAddress(frame[t].key)[1] \notin pkgs
        /\ BundleUnavailable(frame[t].result)

\* C8 as stated: _read_tzdata_timezones never fails, and a read that gets
\* to the bundled catalog when that catalog cannot be computed fails with
\* UnknownTimezone.
C8_BundledCatalogNeverFails ==
    \A t \in Threads :
        /\ Done(t) /\ frame[t].op = "tzdata" => frame[t].result.kind = "return"
        /\ ReadDone(t) /\ frame[t].tzCalled /\ (TzdataPackage \notin pkgs \/ zones.kind # "file")
               => UnknownTimezone(frame[t].result)

\* C9 as stated: a read ends with a TimezoneInfo or with an error of the
\* taxonomy.
C9_OnlyNamedErrors ==
    \A t \in Threads :
        ReadDone(t) =>
            \/ IsTimezoneInfo(frame[t].result)
            \/ UnknownTimezone(frame[t].result)
            \/ ResourceMissing(frame[t].result)
            \/ BundleUnavailable(frame[t].result)
            \/ DecodeError(frame[t].result)

\* C10: a read runs the decoder at most once, and when the host file it
\* found does not decode, the decoder's error is the read's outcome: no
\* directory after that file's is probed and nothing of the bundled
\* distribution is consulted.
C10_DecodeFailureIsFinal ==
    \A t \in Threads :
        /\ frame[t].decodes <= 1
        /\ ReadDone(t) /\ InHostCatalog(frame[t].key) /\ HasHostFile(frame[t].key)
           => LET d == FirstHostDir(frame[t].key)
                  file == hostfs[d][frame[t].key]
              IN  file.readable /\ read_tzif(file.bytes).kind = "raise" =>
                      /\ frame[t].result = read_tzif(file.bytes)
                      /\ DecodeError(frame[t].result)
                      /\ frame[t].decodes = 1
                      /\ frame[t].probed = [j \in 1..d |-> j]
                      /\ NoBundledAccess(frame[t])

\* C10's case: the first file does not decode while a later directory and
\* the distribution both hold well-formed data for the key
C10_Witness ==
    \E t \in Threads :
        /\ ReadDone(t)
        /\ NumDirs >= 2
        /\ hostfs[1][frame[t].key] = File(CorruptHostBytes, TRUE)
        /\ hostfs[2][frame[t].key] = File(GoodHostBytes(2), TRUE)
        /\ InBundledCatalog(frame[t].key)
        /\ BundledAddress(frame[t].key)[1] \in pkgs
        /\ ResourceAt(BundledAddress(frame[t].key)) = File(GoodBundledBytes, TRUE)
        /\ DecodeError(frame[t].result)

\* C7 as stated: each catalog is computed, and a result stored in its
\* cache, at most once; every caller, concurrent first callers included, is
\* given the content that was cached first.
C7_ComputedOnce ==
    /\ Len(sysWrites) <= 1
    /\ Len(tzWrites) <= 1
    /\ \A t \in Threads :
           /\ Len(frame[t].hostCat) > 0 => frame[t].hostCat[1] = sysWrites[1]
           /\ Len(frame[t].tzCat) > 0 => frame[t].tzCat[1] = tzWrites[1]

\* the last part of C7 alone: whatever was computed, every caller is given
\* the content that was cached first, and the cache never holds another
C7_IdenticalContent ==
    /\ \A i \in 1..Len(sysWrites) : sysWrites[i] = sysWrites[1]
    /\ \A i \in 1..Len(tzWrites) : tzWrites[i] = tzWrites[1]
    /\ \A t \in Threads :
           /\ Len(frame[t].hostCat) > 0 => frame[t].hostCat[1] = sysWrites[1]
           /\ Len(frame[t].tzCat) > 0 => frame[t].tzCat[1] = tzWrites[1]

----------------------------------------------------------------------------
\* C5: the mapping of a non-empty key gives as resource the part of the key
\* after its last "/" and as package the root package followed by "." and
\* the part before that "/" with every "/" turned into "."; a key without
\* "/" gives the root package and the whole key.
C5_KeyToResource ==
    Len(mres) > 0 =>
        LET g == mres[1][1]
            r == mres[1][2]
            n == Len(mkey)
            m == Len(mres[1][2])
            root == Len(ZoneinfoPackage)
        IN  /\ m <= n
            /\ r = SubSeq(mkey, n - m + 1, n)
            /\ \A i \in 1..m : r[i] # "/"
            /\ IF \A i \in 1..n : mkey[i] # "/"
               THEN g = ZoneinfoPackage /\ r = mkey
               ELSE /\ m < n
                    /\ mkey[n - m] = "/"
                    /\ Len(g) = root + n - m
                    /\ SubSeq(g, 1, root) = ZoneinfoPackage
                    /\ g[root + 1] = "."
                    /\ \A i \in 1..(n - m - 1) :
                           g[root + 1 + i] = IF mkey[i] = "/" THEN "." ELSE mkey[i]

\* C5's case: a key with two separators was mapped
C5_Witness ==
    /\ mkey = <<"a", "/", "b", "/", "a">>
    /\ mres = <<<<ZoneinfoPackage \o <<".", "a", ".", "b">>, <<"a">>>>>>

====
